---- MODULE Spec2Model ----
(***************************************************************************)
(* A model of the photonic circuit simulator (package phosim):             *)
(*   data_types.py  OpticalPower, IntRange, ConnectionEndpoint             *)
(*   components.py  Component and its variants                             *)
(*   simulation.py  PhotonicSimulation and Observer                        *)
(* Component objects are drawn from a fixed pool of constructed instances; *)
(* every method of the simulation is one action.                           *)
(***************************************************************************)
EXTENDS Integers, Sequences, FiniteSets, TLC

VARIABLES
    components,             \* PhotonicSimulation._components: <<[name, component]>> in dict order
    observers,              \* PhotonicSimulation._observers: <<[name, target, port_type, port_id, data]>>
    dependencies_resolved,  \* PhotonicSimulation._dependencies_resolved
    connections_in,         \* Component._connections_in, per pool component and port type
    connections_out,        \* Component._connections_out
    output,                 \* Component._output
    power,                  \* Laser._power, per laser of the pool
    call,                   \* the last call made (its arguments)
    ret,                    \* what that call returned or raised
    updateLog,              \* the components whose update() ran in the last update(), in order
    ticks,                  \* number of update() calls that returned normally
    obsTrack,               \* per observer, since its creation or reset: update() calls completed,
                            \* their end-of-tick samples, whether an update() call failed
    calls                   \* number of calls made so far

vars == <<components, observers, dependencies_resolved, connections_in, connections_out,
          output, power, call, ret, updateLog, ticks, obsTrack, calls>>

-----------------------------------------------------------------------------
(* Bounds of the model *)

\* Largest size argument tried for Splitter / Demux / Mux construction.
MaxSize == 3
\* Largest bound and value tried for IntRange.in_range.
MaxRange == 3
\* Number of API calls explored from the empty simulation.
MaxCalls == 3
\* Number of API calls explored from a wired circuit.
MaxCircuitCalls == 4

-----------------------------------------------------------------------------
(* data_types.py *)

\* Python list indexing: l[i] with i >= 0 from the front, i < 0 from the back.
ValidIndex(l, i) == -Len(l) <= i /\ i < Len(l)
PyIdx(l, i) == IF i >= 0 THEN i + 1 ELSE Len(l) + i + 1

\* Values carried by ports: an OpticalPower dict (wavelength -> power) or a number.
OpticalPower(m) == [t |-> "OpticalPower", m |-> m, x |-> 0]
Float(x) == [t |-> "float", m |-> <<>>, x |-> x]
Digital(x) == [t |-> "int", m |-> <<>>, x |-> x]

OpticalPower_getitem(m, key) == IF key \notin DOMAIN m THEN 0 ELSE m[key]

OpticalPower_mul(m, scalar) == [w \in DOMAIN m |-> m[w] * scalar]

\* Powers are integers in a unit fine enough that the divisions made are exact.
OpticalPower_truediv(m, scalar) == [w \in DOMAIN m |-> m[w] \div scalar]

\* OpticalPower.__add__: a copy of self with rhs[w] added at every key w of rhs
OpticalPower_add(m, rhs) ==
    [w \in (DOMAIN m) \cup (DOMAIN rhs) |->
        IF w \in DOMAIN rhs THEN OpticalPower_getitem(m, w) + rhs[w] ELSE m[w]]

\* value * scalar and value / scalar for either kind of value
ValMul(v, scalar) ==
    IF v.t = "OpticalPower" THEN OpticalPower(OpticalPower_mul(v.m, scalar))
    ELSE [v EXCEPT !.t = "float", !.x = v.x * scalar]

ValDiv(v, scalar) ==
    IF v.t = "OpticalPower" THEN OpticalPower(OpticalPower_truediv(v.m, scalar))
    ELSE [v EXCEPT !.t = "float", !.x = v.x \div scalar]

IntRange(min, max) == [min |-> min, max |-> max]

\* `min == -1 or value >= min and max == -1 or value <= max`: Python binds
\* `and` tighter than `or`.
in_range(r, value) ==
    (r.min = -1) \/ (value >= r.min /\ r.max = -1) \/ (value <= r.max)

ConnectionEndpoint(component, port_id) == [component |-> component, port_id |-> port_id]

\* An empty connection slot (Python None).
None == ConnectionEndpoint("None", 0)
IsNone(connection) == connection.component = "None"

-----------------------------------------------------------------------------
(* utilities.py *)

\* 10 ** (db / 10), for the decibel values used here (multiples of 10).
db_to_factor(db) == 10 ^ (db \div 10)

-----------------------------------------------------------------------------
(* components.py: the variants and their construction *)

PortType == <<"OPTICAL", "ANALOG", "DIGITAL">>
PortTypes == {PortType[i] : i \in 1..Len(PortType)}

PortsCount(optical, analog, digital) ==
    [OPTICAL |-> optical, ANALOG |-> analog, DIGITAL |-> digital]

Kinds == {"Eom", "Splitter", "Demux", "Mux", "Photodetector", "Laser", "VoltageSource",
          "Waveguide"}

Ranges(o, a, d) == [OPTICAL |-> o, ANALOG |-> a, DIGITAL |-> d]

\* _component_type_attributes of each variant
ComponentTypeAttributes(kind) ==
    CASE kind = "Eom" ->
           [description |-> "EOM", optical_losses_types |-> {"insertion"},
            ports_in_ranges |-> Ranges(IntRange(1, 1), IntRange(1, 1), IntRange(0, 0)),
            ports_out_ranges |-> Ranges(IntRange(1, 1), IntRange(0, 0), IntRange(0, 0))]
      [] kind = "Splitter" ->
           [description |-> "Splitter", optical_losses_types |-> {"insertion"},
            ports_in_ranges |-> Ranges(IntRange(1, 1), IntRange(0, 0), IntRange(0, 0)),
            ports_out_ranges |-> Ranges(IntRange(1, -1), IntRange(0, 0), IntRange(0, 0))]
      [] kind = "Demux" ->
           [description |-> "Demux", optical_losses_types |-> {"insertion"},
            ports_in_ranges |-> Ranges(IntRange(1, 1), IntRange(0, 0), IntRange(0, 0)),
            ports_out_ranges |-> Ranges(IntRange(1, -1), IntRange(0, 0), IntRange(0, 0))]
      [] kind = "Mux" ->
           [description |-> "Mux", optical_losses_types |-> {"insertion"},
            ports_in_ranges |-> Ranges(IntRange(1, -1), IntRange(0, 0), IntRange(0, 0)),
            ports_out_ranges |-> Ranges(IntRange(1, 1), IntRange(0, 0), IntRange(0, 0))]
      [] kind = "Photodetector" ->
           [description |-> "Photodetector", optical_losses_types |-> {},
            ports_in_ranges |-> Ranges(IntRange(1, 1), IntRange(1, 1), IntRange(0, 0)),
            ports_out_ranges |-> Ranges(IntRange(1, 1), IntRange(0, 0), IntRange(0, 0))]
      [] kind = "Laser" ->
           [description |-> "Laser", optical_losses_types |-> {},
            ports_in_ranges |-> Ranges(IntRange(0, 0), IntRange(0, 0), IntRange(0, 0)),
            ports_out_ranges |-> Ranges(IntRange(1, 1), IntRange(0, 0), IntRange(0, 0))]
      [] kind = "VoltageSource" ->
           [description |-> "Voltage Source", optical_losses_types |-> {},
            ports_in_ranges |-> Ranges(IntRange(0, 0), IntRange(0, 0), IntRange(0, 0)),
            ports_out_ranges |-> Ranges(IntRange(0, 0), IntRange(1, 1), IntRange(0, 0))]
      [] kind = "Waveguide" ->
           [description |-> "Waveguide", optical_losses_types |-> {"propagation"},
            ports_in_ranges |-> Ranges(IntRange(1, 1), IntRange(0, 0), IntRange(0, 0)),
            ports_out_ranges |-> Ranges(IntRange(1, 1), IntRange(0, 0), IntRange(0, 0))]

\* A loss configuration: a dict loss type -> dB, or Python None.
LossDict(db) == [none |-> FALSE, db |-> db]
NoLosses == [none |-> TRUE, db |-> <<>>]

\* The ports_in_count each variant's __init__ hands to Component.__init__;
\* size is Splitter's size, Mux's input_count, len(wavelengths) of Demux.
PortsInCount(kind, size) ==
    CASE kind = "Eom" -> PortsCount(1, 1, 0)
      [] kind = "Mux" -> PortsCount(size, 0, 0)
      [] kind \in {"Laser", "VoltageSource"} -> PortsCount(0, 0, 0)
      [] OTHER -> PortsCount(1, 0, 0)

PortsOutCount(kind, size) ==
    CASE kind \in {"Splitter", "Demux"} -> PortsCount(size, 0, 0)
      [] kind \in {"Photodetector", "VoltageSource"} -> PortsCount(0, 1, 0)
      [] OTHER -> PortsCount(1, 0, 0)

\* The optical_losses_db each variant's __init__ hands on: the sources and the
\* photodetector pass none.
LossesArg(kind, losses) ==
    IF kind \in {"Photodetector", "Laser", "VoltageSource"} THEN NoLosses ELSE losses

\* The range check of Component.__init__: only ports_in_ranges is consulted.
PortsRangeError(attributes, ports_in_count, ports_out_count) ==
    \E port_type \in PortTypes :
        ~in_range(attributes.ports_in_ranges[port_type], ports_in_count[port_type])

\* The loss dict after the defaults of Component.__init__ are written into it.
LossesDefaulted(attributes, db) ==
    [l \in (DOMAIN db) \cup attributes.optical_losses_types |->
        IF l \in DOMAIN db THEN db[l] ELSE 0]

\* Component.__init__ as run by the variant's __init__: the constructed
\* component, or the exception raised.
Construct(kind, size, losses) ==
    LET attributes == ComponentTypeAttributes(kind)
        ports_in_count == PortsInCount(kind, size)
        ports_out_count == PortsOutCount(kind, size)
        optical_losses_db == LossesArg(kind, losses)
        failed(status) ==
            [status |-> status, kind |-> kind, warned |-> {},
             ports_in |-> PortsCount(0, 0, 0), ports_out |-> PortsCount(0, 0, 0),
             losses_db |-> NoLosses, losses_factor |-> NoLosses]
    IN  IF PortsRangeError(attributes, ports_in_count, ports_out_count)
        THEN failed("ValueError")
        ELSE IF attributes.optical_losses_types # {} /\ optical_losses_db.none
        THEN failed("AttributeError")
        ELSE LET db == IF optical_losses_db.none THEN <<>>
                       ELSE LossesDefaulted(attributes, optical_losses_db.db)
                 truthy == ~optical_losses_db.none /\ DOMAIN db # {}
             IN  [status |-> "ok", kind |-> kind,
                  warned |-> IF optical_losses_db.none THEN {}
                             ELSE attributes.optical_losses_types \ DOMAIN optical_losses_db.db,
                  ports_in |-> ports_in_count, ports_out |-> ports_out_count,
                  losses_db |-> IF truthy THEN LossDict(db) ELSE NoLosses,
                  losses_factor |-> IF truthy
                                    THEN LossDict([l \in DOMAIN db |-> db_to_factor(db[l])])
                                    ELSE NoLosses]

-----------------------------------------------------------------------------
(* The pool of constructed components the calls draw from *)

Pool == {"L", "S", "W1", "W2"}

\* Further components, used on their own circuits: a voltage source, two
\* modulators (v_pi 1 and 0), a demultiplexer of two wavelengths,
\* multiplexers of 1, 3 and 4 inputs, a photodetector.
Bench == {"V", "E", "E0", "D", "M1", "M3", "M4", "P"}
Parts == Pool \cup Bench

PoolKind(c) ==
    CASE c = "L" -> "Laser"
      [] c = "S" -> "Splitter"
      [] c = "V" -> "VoltageSource"
      [] c \in {"E", "E0"} -> "Eom"
      [] c = "D" -> "Demux"
      [] c \in {"M1", "M3", "M4"} -> "Mux"
      [] c = "P" -> "Photodetector"
      [] OTHER -> "Waveguide"

\* Splitter(2, ...): a source with two optical outputs; Demux of two
\* wavelengths; Mux(1, ...), Mux(3, ...), Mux(4, ...).
PoolSize(c) ==
    CASE c \in {"S", "D"} -> 2
      [] c = "M1" -> 1
      [] c = "M3" -> 3
      [] c = "M4" -> 4
      [] OTHER -> 0

PoolLosses(c) ==
    CASE c = "S" -> LossDict([l \in {"insertion"} |-> 0])
      [] c \in {"W1", "W2"} -> LossDict([l \in {"propagation"} |-> 10])
      [] c \in {"E", "E0", "D", "M1", "M3", "M4"} -> LossDict([l \in {"insertion"} |-> 10])
      [] OTHER -> NoLosses

\* The components as their constructors leave them
BuiltPool == [c \in Parts |-> Construct(PoolKind(c), PoolSize(c), PoolLosses(c))]
Built(c) == BuiltPool[c]

Lasers == {c \in Pool : PoolKind(c) = "Laser"}
\* Laser(wavelength, power): the wavelength of the pool's lasers, and the
\* powers they are constructed with or set to.
Wavelength == 1550
Powers == {2, 4}

\* Laser._update_output
Laser_update_output(out, c, p) ==
    [out EXCEPT ![c]["OPTICAL"][1] = OpticalPower([w \in {Wavelength} |-> p])]

\* The tables Component.__init__ builds: [None] * count per port type.
InitConnections(count) ==
    [port_type \in PortTypes |-> [i \in 1..count[port_type] |-> None]]

\* Component.__init__'s _output: empty OpticalPower, 0.0 and 0 per port.
InitOutput(count) ==
    [port_type \in PortTypes |->
        [i \in 1..count[port_type] |->
            CASE port_type = "OPTICAL" -> OpticalPower(<<>>)
              [] port_type = "ANALOG" -> Float(0)
              [] OTHER -> Digital(0)]]

-----------------------------------------------------------------------------
(* components.py: Component.connect_to *)

\* The two connection tables and the outcome of a call that changes them.
Tables(in, out, status) == [in |-> in, out |-> out, status |-> status]

\* Faulty variant of ConnectDirect: a populated target input slot keeps its
\* endpoint instead of being overwritten.
ConnectDirect_keep(tabs, self, target, port_type, source_port_id, target_port_id) ==
    LET outs == tabs.out[self][port_type]
        ins == tabs.in[target][port_type]
    IN  IF source_port_id >= Len(outs)
        THEN Tables(tabs.in, tabs.out, "RuntimeError: output port exceeds")
        ELSE IF ~ValidIndex(outs, source_port_id)
        THEN Tables(tabs.in, tabs.out, "IndexError")
        ELSE
          LET out1 == [tabs.out EXCEPT ![self][port_type][PyIdx(outs, source_port_id)] =
                           ConnectionEndpoint(target, target_port_id)]
          IN  IF target_port_id >= Len(ins)
              THEN Tables(tabs.in, out1, "RuntimeError: input port exceeds")
              ELSE IF ~ValidIndex(ins, target_port_id)
              THEN Tables(tabs.in, out1, "IndexError")
              ELSE IF ~IsNone(ins[PyIdx(ins, target_port_id)])
              THEN Tables(tabs.in, out1, "ok")
              ELSE Tables([tabs.in EXCEPT ![target][port_type][PyIdx(ins, target_port_id)] =
                               ConnectionEndpoint(self, source_port_id)],
                          out1, "ok")

\* The else branch of connect_to (lines 119-138): the direct connection.
\* An exception leaves what was already written.
ConnectDirect(tabs, self, target, port_type, source_port_id, target_port_id) ==
    LET outs == tabs.out[self][port_type]
        ins == tabs.in[target][port_type]
    IN  IF source_port_id >= Len(outs)
        THEN Tables(tabs.in, tabs.out, "RuntimeError: output port exceeds")
        ELSE IF ~ValidIndex(outs, source_port_id)
        THEN Tables(tabs.in, tabs.out, "IndexError")
        ELSE
          LET out1 == [tabs.out EXCEPT ![self][port_type][PyIdx(outs, source_port_id)] =
                           ConnectionEndpoint(target, target_port_id)]
          IN  IF target_port_id >= Len(ins)
              THEN Tables(tabs.in, out1, "RuntimeError: input port exceeds")
              ELSE IF ~ValidIndex(ins, target_port_id)
              THEN Tables(tabs.in, out1, "IndexError")
              ELSE Tables([tabs.in EXCEPT ![target][port_type][PyIdx(ins, target_port_id)] =
                               ConnectionEndpoint(self, source_port_id)],
                          out1, "ok")

\* self.connect_to(waveguide) passes no source_port_id: the default 0 is used.
SpliceSourcePort(source_port_id) == 0

\* Component.connect_to; NoWaveguide stands for waveguide=None.
NoWaveguide == "None"
connect_to(tabs, self, target, port_type, source_port_id, target_port_id, waveguide) ==
    IF waveguide # NoWaveguide /\ port_type = "OPTICAL"
    THEN LET first == ConnectDirect(tabs, self, waveguide, "OPTICAL",
                                    SpliceSourcePort(source_port_id), 0)
         IN  IF first.status # "ok" THEN first
             ELSE ConnectDirect(first, waveguide, target, "OPTICAL", 0, target_port_id)
    ELSE ConnectDirect(tabs, self, target, port_type, source_port_id, target_port_id)

-----------------------------------------------------------------------------
(* components.py: reading ports and the variants' update() *)

Result(status, value) == [status |-> status, value |-> value]

\* Component.get_output (copy=False): self._output[port_type][port_id]
get_output(out, c, port_type, port_id) ==
    LET outs == out[c][port_type]
    IN  IF ValidIndex(outs, port_id) THEN Result("ok", outs[PyIdx(outs, port_id)])
        ELSE Result("IndexError", Float(0))

\* Component.get_input: the value at the connected upstream output port.
get_input(cin, out, c, port_type, port_id) ==
    LET slots == cin[c][port_type]
    IN  IF ~ValidIndex(slots, port_id) THEN Result("IndexError", Float(0))
        ELSE LET connection == slots[PyIdx(slots, port_id)]
             IN  IF IsNone(connection)
                 THEN Result("RuntimeError: not connected", Float(0))
                 ELSE get_output(out, connection.component, port_type, connection.port_id)

\* self.losses_factor[loss_type]
LossFactor(c, loss_type) == Built(c).losses_factor.db[loss_type]

\* Waveguide.update: output = input * propagation factor
Waveguide_transfer(c, input) == ValMul(input, LossFactor(c, "propagation"))

\* Splitter.update: every output = input / number of outputs * insertion factor
Splitter_transfer(c, input) ==
    ValMul(ValDiv(input, Built(c).ports_out["OPTICAL"]), LossFactor(c, "insertion"))

\* Eom(v_pi, ...), Photodetector(gain), Demux(wavelengths, ...) of the bench
V_pi(c) == IF c = "E0" THEN 0 ELSE 1
Gain(c) == 1
Wavelengths(c) == <<Wavelength, Wavelength + 1>>

\* math.sin(x) ** 2. Voltages and v_pi are counted in units of pi / 2 and only
\* the quotients 0 and 1 occur: sin(0) ** 2 = 0, sin(pi / 2) ** 2 = 1.
Sin2(x) == IF x = 0 THEN 0 ELSE 1

\* Eom.update once both inputs are read: the output is overwritten with a
\* copy of the optical input, then scaled in place; the division by v_pi
\* raises after the overwrite.
Eom_apply(out, c, modulation_voltage, input) ==
    IF modulation_voltage.status # "ok"
    THEN [status |-> modulation_voltage.status, output |-> out]
    ELSE IF input.status # "ok" THEN [status |-> input.status, output |-> out]
    ELSE IF V_pi(c) = 0
    THEN [status |-> "ZeroDivisionError",
          output |-> [out EXCEPT ![c]["OPTICAL"][1] = input.value]]
    ELSE [status |-> "ok",
          output |-> [out EXCEPT ![c]["OPTICAL"][1] =
                          ValMul(input.value,
                                 Sin2(modulation_voltage.value.x \div V_pi(c))
                                    * LossFactor(c, "insertion"))]]

\* Demux.update once the input is read: output port i = input_light[wavelength
\* i] * insertion factor, a number; a numeric input cannot be subscripted.
Demux_apply(out, c, input_light) ==
    IF input_light.status # "ok" THEN [status |-> input_light.status, output |-> out]
    ELSE IF input_light.value.t # "OpticalPower"
    THEN [status |-> "TypeError", output |-> out]
    ELSE [status |-> "ok",
          output |-> [out EXCEPT ![c]["OPTICAL"] =
                          [port \in 1..Len(Wavelengths(c)) |->
                              Float(OpticalPower_getitem(input_light.value.m,
                                                         Wavelengths(c)[port])
                                       * LossFactor(c, "insertion"))]]]

\* len(self.connections_in): connections_in is the dict keyed by port type.
Mux_range(c) == Len(PortType)

\* The loop of Mux.update from index on: output[0] += input * insertion
\* factor; adding a number to an OpticalPower raises.
RECURSIVE Mux_loop(_, _, _, _)
Mux_apply(cin, out, c, index, input_light) ==
    IF input_light.status # "ok" THEN [status |-> input_light.status, output |-> out]
    ELSE IF input_light.value.t # "OpticalPower"
    THEN [status |-> "AttributeError", output |-> out]
    ELSE Mux_loop(cin,
                  [out EXCEPT ![c]["OPTICAL"][1] =
                      OpticalPower(OpticalPower_add(
                          @.m, OpticalPower_mul(input_light.value.m,
                                                LossFactor(c, "insertion"))))],
                  c, index + 1)
Mux_loop(cin, out, c, index) ==
    IF index >= Mux_range(c) THEN [status |-> "ok", output |-> out]
    ELSE Mux_apply(cin, out, c, index, get_input(cin, out, c, "OPTICAL", index))

\* Mux.update: the output starts as an empty OpticalPower
Mux_update(cin, out, c) ==
    Mux_loop(cin, [out EXCEPT ![c]["OPTICAL"][1] = OpticalPower(<<>>)], c, 0)

\* sum(d.values()) for an OpticalPower dict d
RECURSIVE SumValues(_)
SumValues(m) ==
    IF DOMAIN m = {} THEN 0
    ELSE LET w == CHOOSE w \in DOMAIN m : TRUE
         IN  m[w] + SumValues([v \in (DOMAIN m) \ {w} |-> m[v]])

\* Photodetector.update once the input is read: analog output = sum of the
\* input powers * gain; a numeric input has no values().
Photodetector_apply(out, c, input) ==
    IF input.status # "ok" THEN [status |-> input.status, output |-> out]
    ELSE IF input.value.t # "OpticalPower"
    THEN [status |-> "AttributeError", output |-> out]
    ELSE [status |-> "ok",
          output |-> [out EXCEPT ![c]["ANALOG"][1] =
                          Float(SumValues(input.value.m) * Gain(c))]]

\* update() of the component c: the new outputs, or the exception raised.
\* Laser and VoltageSource do nothing; a Splitter without outputs reads nothing.
Component_apply(cin, out, c, kind, input, n) ==
    CASE kind \in {"Laser", "VoltageSource"} -> [status |-> "ok", output |-> out]
      [] kind = "Eom" ->
           Eom_apply(out, c, get_input(cin, out, c, "ANALOG", 0), input)
      [] kind = "Demux" -> Demux_apply(out, c, input)
      [] kind = "Mux" -> Mux_update(cin, out, c)
      [] kind = "Photodetector" -> Photodetector_apply(out, c, input)
      [] kind = "Waveguide" ->
           IF input.status # "ok" THEN [status |-> input.status, output |-> out]
           ELSE [status |-> "ok",
                 output |-> [out EXCEPT ![c]["OPTICAL"][1] =
                                 Waveguide_transfer(c, input.value)]]
      [] kind = "Splitter" ->
           IF n = 0 THEN [status |-> "ok", output |-> [out EXCEPT ![c]["OPTICAL"] = <<>>]]
           ELSE IF input.status # "ok" THEN [status |-> input.status, output |-> out]
           ELSE [status |-> "ok",
                 output |-> [out EXCEPT ![c]["OPTICAL"] =
                                 [i \in 1..n |-> Splitter_transfer(c, input.value)]]]

\* update() of c, with input = self.get_input(PortType.OPTICAL, 0) where the
\* variant reads it and n = the number of optical output ports
Component_update(cin, out, c) ==
    Component_apply(cin, out, c, PoolKind(c), get_input(cin, out, c, "OPTICAL", 0),
                    Built(c).ports_out["OPTICAL"])

-----------------------------------------------------------------------------
(* simulation.py: PhotonicSimulation *)

Names(entries) == {entries[i].name : i \in 1..Len(entries)}

RECURSIVE first_available_index(_, _, _)
first_available_index(description, dictionary, index) ==
    IF (description \o " " \o ToString(index)) \notin Names(dictionary) THEN index
    ELSE first_available_index(description, dictionary, index + 1)

\* Faulty variant of first_available_name: the index is the number of entries
\* of the dictionary instead of the first index not taken.
first_available_name_count(description, dictionary) ==
    description \o " " \o ToString(Len(dictionary))

\* _first_available_name: "<description> <index>" with the first index not taken
first_available_name(description, dictionary) ==
    description \o " " \o ToString(first_available_index(description, dictionary, 0))

Description(c) == ComponentTypeAttributes(PoolKind(c)).description

\* name=None (or any falsy name)
NoName == ""

\* Faulty variant of add_component: a name already present is bound to the
\* new component instead of being refused.
add_component_rebind(comps, component, name) ==
    LET used == IF name = NoName THEN first_available_name(Description(component), comps)
                ELSE name
    IN  IF used \in Names(comps)
        THEN [status |-> "ok", name |-> used,
              components |-> [i \in 1..Len(comps) |->
                                 IF comps[i].name = used
                                 THEN [name |-> used, component |-> component]
                                 ELSE comps[i]]]
        ELSE [status |-> "ok", name |-> used,
              components |-> Append(comps, [name |-> used, component |-> component])]

\* add_component: the registry afterwards, the name used and the outcome.
\* On success the caller also clears _dependencies_resolved.
add_component(comps, component, name) ==
    LET used == IF name = NoName THEN first_available_name(Description(component), comps)
                ELSE name
    IN  IF used \in Names(comps)
        THEN [status |-> "RuntimeError: already exists", components |-> comps, name |-> used]
        ELSE [status |-> "ok", name |-> used,
              components |-> Append(comps, [name |-> used, component |-> component])]

\* self._components[name]
Lookup(comps, name) ==
    LET i == CHOOSE i \in 1..Len(comps) : comps[i].name = name IN comps[i].component

\* OrderedDict.move_to_end of the entry at (1-based) position i
move_to_end(comps, i) ==
    [j \in 1..Len(comps) |->
        IF j < i THEN comps[j] ELSE IF j < Len(comps) THEN comps[j + 1] ELSE comps[i]]

\* The input connections of a component over all port types
InputConnections(cin, c) ==
    UNION {{cin[c][port_type][i] : i \in 1..Len(cin[c][port_type])} : port_type \in PortTypes}

\* Mutant of ResolveStep: the unresolved components are taken from the slice
\* before current_index instead of the slice from it.
ResolveStep_prefix(cin, st) ==
    LET comps == st.components
        unresolved == {comps[i].component : i \in 1..st.current_index}
        component == comps[st.current_index + 1].component
        connections == InputConnections(cin, component)
    IN  IF st.current_index = Len(comps) THEN [st EXCEPT !.status = "ok"]
        ELSE IF st.iterated = Len(comps) - st.current_index
        THEN [st EXCEPT !.status = "RuntimeError: circular references"]
        ELSE IF \E connection \in connections : IsNone(connection)
        THEN [st EXCEPT !.status = "AttributeError"]
        ELSE IF \E connection \in connections : connection.component \in unresolved
        THEN [st EXCEPT !.components = move_to_end(comps, st.current_index + 1),
                        !.iterated = st.iterated + 1]
        ELSE [st EXCEPT !.current_index = st.current_index + 1, !.iterated = 0]

\* One pass of the while loop of _resolve_dependencies (lines 70-89).
\* st = [components, current_index, iterated, status]; status "running" until
\* the loop ends ("ok") or raises.
ResolveStep(cin, st) ==
    LET comps == st.components
        unresolved == {comps[i].component : i \in (st.current_index + 1)..Len(comps)}
        component == comps[st.current_index + 1].component
        connections == InputConnections(cin, component)
    IN  IF st.current_index = Len(comps) THEN [st EXCEPT !.status = "ok"]
        ELSE IF st.iterated = Len(comps) - st.current_index
        THEN [st EXCEPT !.status = "RuntimeError: circular references"]
        ELSE IF \E connection \in connections : IsNone(connection)
        THEN [st EXCEPT !.status = "AttributeError"]
        ELSE IF \E connection \in connections : connection.component \in unresolved
        THEN [st EXCEPT !.components = move_to_end(comps, st.current_index + 1),
                        !.iterated = st.iterated + 1]
        ELSE [st EXCEPT !.current_index = st.current_index + 1, !.iterated = 0]

RECURSIVE ResolveLoop(_, _)
ResolveLoop(cin, st) ==
    IF st.status # "running" THEN st ELSE ResolveLoop(cin, ResolveStep(cin, st))

\* _resolve_dependencies: the reordered registry and the outcome; the caller
\* sets _dependencies_resolved when the outcome is "ok".
resolve_dependencies(cin, comps) ==
    ResolveLoop(cin, [components |-> comps, current_index |-> 0, iterated |-> 0,
                      status |-> "running"])

\* `for component in self._components.values(): component.update()` from
\* entry i on; stops at the first exception, keeping the outputs written.
RECURSIVE UpdateLoop(_, _, _, _, _)
UpdateNext(comps, i, cin, log1, r) ==
    IF r.status # "ok" THEN [status |-> r.status, output |-> r.output, log |-> log1]
    ELSE UpdateLoop(comps, i + 1, cin, r.output, log1)
UpdateLoop(comps, i, cin, out, log) ==
    IF i > Len(comps) THEN [status |-> "ok", output |-> out, log |-> log]
    ELSE UpdateNext(comps, i, cin, Append(log, comps[i].component),
                    Component_update(cin, out, comps[i].component))

-----------------------------------------------------------------------------
(* simulation.py: Observer *)

\* Mutant of Observer_record: the sample is inserted at the front of _data.
Observer_record_prepend(out, observer) ==
    LET r == get_output(out, observer.target, observer.port_type, observer.port_id)
    IN  IF r.status # "ok" THEN [status |-> r.status, observer |-> observer]
        ELSE [status |-> "ok",
              observer |-> [observer EXCEPT !.data = <<r.value>> \o observer.data]]

\* Mutant of Observer_record: _data is replaced by the sample alone.
Observer_record_replace(out, observer) ==
    LET r == get_output(out, observer.target, observer.port_type, observer.port_id)
    IN  IF r.status # "ok" THEN [status |-> r.status, observer |-> observer]
        ELSE [status |-> "ok", observer |-> [observer EXCEPT !.data = <<r.value>>]]

\* Observer.record: append the tapped output to _data
Observer_record(out, observer) ==
    LET r == get_output(out, observer.target, observer.port_type, observer.port_id)
    IN  IF r.status # "ok" THEN [status |-> r.status, observer |-> observer]
        ELSE [status |-> "ok",
              observer |-> [observer EXCEPT !.data = Append(observer.data, r.value)]]

\* `for observer in self._observers.values(): observer.record()` from entry i
\* on; stops at the first exception. recorded = how many observers recorded.
RECURSIVE RecordLoop(_, _, _)
RecordLoop(obs, i, out) ==
    IF i > Len(obs) THEN [status |-> "ok", observers |-> obs, recorded |-> Len(obs)]
    ELSE LET r == Observer_record(out, obs[i])
         IN  IF r.status # "ok"
             THEN [status |-> r.status, observers |-> obs, recorded |-> i - 1]
             ELSE RecordLoop([obs EXCEPT ![i] = r.observer], i + 1, out)

\* observer_data: `[observer.data for observer in self._observers]` iterates
\* the dict itself, that is its keys: each `observer` is a name (a str), which
\* has no attribute data.
observer_data(obs) ==
    IF Len(obs) = 0 THEN Result("ok", <<>>)
    ELSE Result("AttributeError", <<>>)

-----------------------------------------------------------------------------
(* The calls: one action per method *)

CallRec(op, source, target, port_type, source_port_id, target_port_id, waveguide, name) ==
    [op |-> op, source |-> source, target |-> target, port_type |-> port_type,
     source_port_id |-> source_port_id, target_port_id |-> target_port_id,
     waveguide |-> waveguide, name |-> name]

NoCall == CallRec("none", "None", "None", "OPTICAL", 0, 0, NoWaveguide, NoName)

NewTrack == [ticks |-> 0, samples |-> <<>>, failed |-> FALSE, reset |-> FALSE]

\* PhotonicSimulation.add_component(component, name)
AddComponent(Cs, Ns) ==
    \E component \in Cs, name \in Ns :
        LET r == add_component(components, component, name)
        IN  /\ components' = r.components
            /\ dependencies_resolved' = IF r.status = "ok" THEN FALSE
                                        ELSE dependencies_resolved
            /\ call' = CallRec("add_component", component, "None", "OPTICAL", 0, 0,
                               NoWaveguide, name)
            /\ ret' = Result(r.status, <<r.name, component>>)
            /\ calls' = calls + 1
            /\ UNCHANGED <<observers, connections_in, connections_out, output, power,
                           updateLog, ticks, obsTrack>>

\* PhotonicSimulation.connect(source, target, port_type, source_port_id,
\* target_port_id, waveguide); source and target by reference (a pool
\* component) or by name.
Connect(Ss, Ts, PTs, SPs, TPs, WGs) ==
    \E source_arg \in Ss, target_arg \in Ts, port_type \in PTs, source_port_id \in SPs,
       target_port_id \in TPs, waveguide \in WGs :
        LET known(arg) == arg \in Pool \/ arg \in Names(components)
            source == IF source_arg \in Pool THEN source_arg ELSE Lookup(components, source_arg)
            target == IF target_arg \in Pool THEN target_arg ELSE Lookup(components, target_arg)
            tabs == connect_to(Tables(connections_in, connections_out, "ok"), source, target,
                               port_type, source_port_id, target_port_id, waveguide)
            added == add_component(components, waveguide, NoName)
        IN  /\ call' = CallRec("connect", source_arg, target_arg, port_type, source_port_id,
                               target_port_id, waveguide, NoName)
            /\ calls' = calls + 1
            /\ UNCHANGED <<observers, output, power, updateLog, ticks, obsTrack>>
            /\ IF ~known(source_arg) \/ ~known(target_arg)
               THEN /\ ret' = Result("KeyError", <<>>)
                    /\ UNCHANGED <<components, dependencies_resolved, connections_in,
                                   connections_out>>
               ELSE /\ connections_in' = tabs.in
                    /\ connections_out' = tabs.out
                    /\ IF tabs.status = "ok" /\ waveguide # NoWaveguide
                       THEN /\ components' = added.components
                            /\ dependencies_resolved' =
                                   IF added.status = "ok" THEN FALSE ELSE dependencies_resolved
                            /\ ret' = Result(added.status, <<>>)
                       ELSE /\ ret' = Result(tabs.status, <<>>)
                            /\ UNCHANGED <<components, dependencies_resolved>>

\* PhotonicSimulation.create_observer(target, port_type, port_id, name)
CreateObserver(Ts, PTs, Ps, Ns) ==
    \E target \in Ts, port_type \in PTs, port_id \in Ps, name \in Ns :
        LET used == IF name = NoName THEN first_available_name("Observer", observers)
                    ELSE name
            ok == used \notin Names(observers)
        IN  /\ call' = CallRec("create_observer", "None", target, port_type, 0, port_id,
                               NoWaveguide, name)
            /\ calls' = calls + 1
            /\ ret' = Result(IF ok THEN "ok" ELSE "RuntimeError: already exists", <<used>>)
            /\ observers' = IF ok
                            THEN Append(observers, [name |-> used, target |-> target,
                                                    port_type |-> port_type,
                                                    port_id |-> port_id, data |-> <<>>])
                            ELSE observers
            /\ obsTrack' = IF ok THEN Append(obsTrack, NewTrack) ELSE obsTrack
            /\ UNCHANGED <<components, dependencies_resolved, connections_in,
                           connections_out, output, power, updateLog, ticks>>

\* What the observers' taps show in the outputs out (the end-of-tick sample).
Tapped(out, observer) ==
    get_output(out, observer.target, observer.port_type, observer.port_id).value

\* PhotonicSimulation.update()
Update ==
    LET res == IF dependencies_resolved THEN [status |-> "ok", components |-> components]
               ELSE resolve_dependencies(connections_in, components)
        up == UpdateLoop(res.components, 1, connections_in, output, <<>>)
        rec == RecordLoop(observers, 1, up.output)
        status == IF res.status # "ok" THEN res.status
                  ELSE IF up.status # "ok" THEN up.status ELSE rec.status
    IN  /\ call' = [NoCall EXCEPT !.op = "update"]
        /\ calls' = calls + 1
        /\ ret' = Result(status, <<>>)
        /\ ticks' = IF status = "ok" THEN ticks + 1 ELSE ticks
        /\ components' = res.components
        /\ UNCHANGED <<connections_in, connections_out, power>>
        /\ obsTrack' =
             [i \in 1..Len(obsTrack) |->
                IF status = "ok"
                THEN [obsTrack[i] EXCEPT
                        !.ticks = @ + 1,
                        !.samples = Append(@, Tapped(up.output, observers[i]))]
                ELSE [obsTrack[i] EXCEPT !.failed = TRUE]]
        /\ IF res.status # "ok"
           THEN /\ updateLog' = <<>>
                /\ UNCHANGED <<dependencies_resolved, output, observers>>
           ELSE /\ dependencies_resolved' = TRUE
                /\ output' = up.output
                /\ updateLog' = up.log
                /\ observers' = IF up.status # "ok" THEN observers ELSE rec.observers

\* The observer_data property
ObserverData ==
    /\ call' = [NoCall EXCEPT !.op = "observer_data"]
    /\ calls' = calls + 1
    /\ ret' = observer_data(observers)
    /\ UNCHANGED <<components, observers, dependencies_resolved, connections_in,
                   connections_out, output, power, updateLog, ticks, obsTrack>>

\* Laser.power = p (the setter recomputes the output at once)
SetPower ==
    \E c \in Lasers, p \in Powers :
        /\ call' = [NoCall EXCEPT !.op = "set_power", !.source = c]
        /\ calls' = calls + 1
        /\ ret' = Result("ok", <<>>)
        /\ power' = [power EXCEPT ![c] = p]
        /\ output' = Laser_update_output(output, c, p)
        /\ UNCHANGED <<components, observers, dependencies_resolved, connections_in,
                       connections_out, updateLog, ticks, obsTrack>>

\* Observer.reset()
ObserverReset ==
    \E i \in 1..Len(observers) :
        /\ call' = [NoCall EXCEPT !.op = "reset", !.name = observers[i].name]
        /\ calls' = calls + 1
        /\ ret' = Result("ok", <<>>)
        /\ observers' = [observers EXCEPT ![i].data = <<>>]
        /\ obsTrack' = [obsTrack EXCEPT ![i] = [NewTrack EXCEPT !.reset = TRUE]]
        /\ UNCHANGED <<components, dependencies_resolved, connections_in, connections_out,
                       output, power, updateLog, ticks>>

\* Observer.target = t and Observer.port_id = p (the two setters)
ObserverRetarget(Ts, Ps) ==
    \E i \in 1..Len(observers), target \in Ts, port_id \in Ps :
        /\ call' = [NoCall EXCEPT !.op = "retarget", !.name = observers[i].name,
                                  !.target = target, !.target_port_id = port_id]
        /\ calls' = calls + 1
        /\ ret' = Result("ok", <<>>)
        /\ observers' = [observers EXCEPT ![i].target = target, ![i].port_id = port_id]
        /\ UNCHANGED <<components, dependencies_resolved, connections_in, connections_out,
                       output, power, updateLog, ticks, obsTrack>>

-----------------------------------------------------------------------------
(* The simulation from its construction *)

PortIds == {0, 1}
Waveguides == {c \in Pool : PoolKind(c) = "Waveguide"}
\* The power the pool's laser is constructed with: the lowest of Powers.
InitialPower == CHOOSE p \in Powers : \A q \in Powers : p <= q
\* Explicit names tried: one of the auto-generated form, which is also the
\* registry key used to address a component by name.
NameArgs == {NoName, "Waveguide 0"}

\* The pool as constructed: Laser(Wavelength, p), Splitter(2, ...), Waveguide(...)
InitComponents(p) ==
    /\ power = [c \in Lasers |-> p]
    /\ output = [c \in Pool |->
                    IF c \in Lasers
                    THEN Laser_update_output(
                             [d \in Pool |-> InitOutput(Built(d).ports_out)], c, p)[c]
                    ELSE InitOutput(Built(c).ports_out)]

InitCalls ==
    /\ call = NoCall
    /\ ret = Result("ok", <<>>)
    /\ updateLog = <<>>
    /\ ticks = 0
    /\ calls = 0

\* PhotonicSimulation.__init__, with the pool's components constructed
Init ==
    /\ components = <<>>
    /\ observers = <<>>
    /\ obsTrack = <<>>
    /\ dependencies_resolved = FALSE
    /\ connections_in = [c \in Pool |-> InitConnections(Built(c).ports_in)]
    /\ connections_out = [c \in Pool |-> InitConnections(Built(c).ports_out)]
    /\ InitComponents(InitialPower)
    /\ InitCalls

Next ==
    \/ /\ calls < MaxCalls
       /\ AddComponent(Pool, NameArgs)
    \/ /\ calls < MaxCalls
       /\ Connect({"L", "S", "Waveguide 0"}, {"L", "W2"}, {"OPTICAL"}, PortIds, {0}, {NoWaveguide, "W1"})
    \/ /\ calls < MaxCalls
       /\ CreateObserver({"L", "S"}, {"OPTICAL"}, PortIds, {NoName, "Observer 0"})
    \/ /\ calls < MaxCalls
       /\ Update
    \/ /\ calls < MaxCalls
       /\ ObserverData
    \/ /\ calls < MaxCalls
       /\ SetPower
    \/ /\ calls < MaxCalls
       /\ ObserverReset
    \/ /\ calls < MaxCalls
       /\ ObserverRetarget({"S"}, PortIds)

Spec == Init /\ [][Next]_vars

-----------------------------------------------------------------------------
(* The simulation with a circuit already registered and wired *)

\* The registry after add_component(c) for each c of order, in that order.
RECURSIVE RegistryOf(_)
RegistryOf(order) ==
    IF order = <<>> THEN <<>>
    ELSE add_component(RegistryOf(SubSeq(order, 1, Len(order) - 1)),
                       order[Len(order)], NoName).components

\* The input slots of the pool and the output ports that can feed them.
InSlots == {<<c, port_type, i>> \in Pool \X PortTypes \X (1..MaxSize) :
               i <= Built(c).ports_in[port_type]}
Feeds(port_type) ==
    UNION {{ConnectionEndpoint(c, p) : p \in 0..(Built(c).ports_out[port_type] - 1)} :
              c \in Pool}
Wirings == {f \in [InSlots -> {None} \cup UNION {Feeds(pt) : pt \in PortTypes}] :
               \A slot \in InSlots : f[slot] = None \/ f[slot] \in Feeds(slot[2])}

\* The tables after connect_to calls that wire every slot as f says: each
\* input slot holds its feeder, each output slot the target of the last
\* connection made from it.
InTable(f) ==
    [c \in Pool |-> [port_type \in PortTypes |->
        [i \in 1..Built(c).ports_in[port_type] |-> f[<<c, port_type, i>>]]]]
OutTable(f) ==
    [c \in Pool |-> [port_type \in PortTypes |->
        [i \in 1..Built(c).ports_out[port_type] |->
            LET fed == {slot \in InSlots : /\ slot[2] = port_type
                                           /\ f[slot] = ConnectionEndpoint(c, i - 1)}
            IN  IF fed = {} THEN None
                ELSE LET last == CHOOSE slot \in fed : TRUE
                     IN  ConnectionEndpoint(last[1], last[3] - 1)]]]

Wired(order, f) ==
    /\ components = RegistryOf(order)
    /\ observers = <<>>
    /\ obsTrack = <<>>
    /\ dependencies_resolved = FALSE
    /\ connections_in = InTable(f)
    /\ connections_out = OutTable(f)
    /\ InitCalls

\* Every waveguide fed by the laser, the splitter left unwired.
StarWiring ==
    [slot \in InSlots |-> IF slot[1] \in Waveguides THEN ConnectionEndpoint("L", 0) ELSE None]

Permutations3(S) == {order \in [1..Cardinality(S) -> S] :
                        \A i, j \in 1..Cardinality(S) : order[i] = order[j] => i = j}

\* The laser and the waveguides registered in any order and wired as a star.
InitCircuit ==
    /\ \E order \in Permutations3({"L"} \cup Waveguides) : Wired(order, StarWiring)
    /\ InitComponents(InitialPower)

NextCircuit ==
    \/ /\ calls < MaxCircuitCalls
       /\ Connect({"L"} \cup Waveguides, Waveguides, {"OPTICAL"}, {0}, {0}, {NoWaveguide})
    \/ /\ calls < MaxCircuitCalls
       /\ SetPower
    \/ /\ calls < MaxCircuitCalls
       /\ Update

SpecCircuit == InitCircuit /\ [][NextCircuit]_vars

-----------------------------------------------------------------------------
(* The resolver on any registry and any wiring *)

\* Longest registry tried.
MaxRegistry == 3

Orders == UNION {[1..n -> Pool] : n \in 0..MaxRegistry}

\* Any components registered in any order (a component possibly under two
\* names), every input slot empty or fed by any output port of its type.
InitGraph ==
    /\ \E order \in Orders, f \in Wirings : Wired(order, f)
    /\ InitComponents(InitialPower)

NextGraph == call.op = "none" /\ Update

SpecGraph == InitGraph /\ [][NextGraph]_vars

-----------------------------------------------------------------------------
(* Observers on a wired circuit *)

\* Number of calls explored with observers.
MaxObserveCalls == 4

InitObserve ==
    /\ Wired(<<"L", "W1", "W2">>, StarWiring)
    /\ InitComponents(InitialPower)

NextObserve ==
    \/ /\ calls < MaxObserveCalls
       /\ Update
    \/ /\ calls < MaxObserveCalls
       /\ SetPower
    \/ /\ calls < MaxObserveCalls
       /\ CreateObserver({"L", "W1"}, {"OPTICAL"}, PortIds, {NoName})
    \/ /\ calls < MaxObserveCalls
       /\ ObserverReset
    \/ /\ calls < MaxObserveCalls
       /\ ObserverRetarget({"W2"}, PortIds)
    \/ /\ calls < MaxObserveCalls
       /\ Connect({"W1"}, {"W2"}, {"OPTICAL"}, {0}, {0}, {NoWaveguide})

SpecObserve == InitObserve /\ [][NextObserve]_vars

-----------------------------------------------------------------------------
(* Construction and range checks on their own *)

PureCall(op, kind, size, losses, min, max, value) ==
    [op |-> op, kind |-> kind, size |-> size, losses |-> losses,
     min |-> min, max |-> max, value |-> value]

\* The loss configurations handed to the constructors: None, an empty dict,
\* dicts naming one or both loss types.
LossConfigs ==
    {NoLosses, LossDict(<<>>),
     LossDict([l \in {"insertion"} |-> 10]),
     LossDict([l \in {"propagation"} |-> 0]),
     LossDict([l \in {"insertion", "propagation"} |-> 10])}

PureCalls ==
    {PureCall("in_range", "Laser", 0, NoLosses, min, max, value) :
        min \in -1..MaxRange, max \in -1..MaxRange, value \in 0..(MaxRange + 1)}
    \cup
    {PureCall("construct", kind, size, losses, 0, 0, 0) :
        kind \in Kinds, size \in 0..MaxSize, losses \in LossConfigs}

Pending == Result("pending", <<>>)

InitPure ==
    /\ call \in PureCalls
    /\ ret = Pending
    /\ components = <<>> /\ observers = <<>> /\ obsTrack = <<>>
    /\ dependencies_resolved = FALSE
    /\ connections_in = [c \in Pool |-> InitConnections(Built(c).ports_in)]
    /\ connections_out = [c \in Pool |-> InitConnections(Built(c).ports_out)]
    /\ InitComponents(InitialPower)
    /\ updateLog = <<>> /\ ticks = 0 /\ calls = 0

\* IntRange(min, max).in_range(value)
InRangeCall ==
    /\ call.op = "in_range" /\ ret.status = "pending"
    /\ ret' = Result("ok", in_range(IntRange(call.min, call.max), call.value))
    /\ UNCHANGED <<components, observers, dependencies_resolved, connections_in,
                   connections_out, output, power, call, updateLog, ticks, obsTrack, calls>>

\* Eom(...), Splitter(size, ...), Demux(wavelengths, ...), Mux(input_count, ...),
\* Photodetector(...), Laser(...), VoltageSource(...), Waveguide(...)
ConstructCall ==
    /\ call.op = "construct" /\ ret.status = "pending"
    /\ LET built == Construct(call.kind, call.size, call.losses)
       IN  ret' = Result(built.status, built)
    /\ UNCHANGED <<components, observers, dependencies_resolved, connections_in,
                   connections_out, output, power, call, updateLog, ticks, obsTrack, calls>>

NextPure == InRangeCall \/ ConstructCall

SpecPure == InitPure /\ [][NextPure]_vars

-----------------------------------------------------------------------------
(* The connection graph of the registry *)

Registered == {components[i].component : i \in 1..Len(components)}

\* The components whose outputs feed an input of c
FeedersOf(c) == {e.component : e \in InputConnections(connections_in, c) \ {None}}

RECURSIVE UpstreamWithin(_, _)
UpstreamWithin(S, n) ==
    IF n = 0 THEN S
    ELSE UpstreamWithin(S \cup UNION {FeedersOf(x) \cap Registered : x \in S}, n - 1)

\* The registered components c depends on, directly or through others
Upstream(c) == UpstreamWithin(FeedersOf(c) \cap Registered, Cardinality(Pool))

CyclicGraph == \E c \in Registered : c \in Upstream(c)

FullyConnected ==
    \A c \in Registered : \A e \in InputConnections(connections_in, c) :
        ~IsNone(e) /\ e.component \in Registered

\* Every entry of the registry comes after every entry of a component that
\* feeds it.
DependencyOrdered(comps) ==
    \A i \in 1..Len(comps) : \A j \in 1..Len(comps) :
        comps[j].component \in FeedersOf(comps[i].component) => j < i

SameEntries(before, after) ==
    /\ Len(before) = Len(after)
    /\ {before[i] : i \in 1..Len(before)} = {after[i] : i \in 1..Len(after)}

ResolverRan == call'.op = "update" /\ ~dependencies_resolved

-----------------------------------------------------------------------------
(* Claims *)

\* C1: on an acyclic registry in which every input slot is fed by a
\* registered component, _resolve_dependencies succeeds and leaves the same
\* entries (each once, under its name) ordered so that every component comes
\* after all components feeding it.
C1_ResolveOrdersAcyclic ==
    [][(ResolverRan /\ ~CyclicGraph /\ FullyConnected)
        => /\ dependencies_resolved'
           /\ SameEntries(components, components')
           /\ DependencyOrdered(components')]_vars

\* C1 witness: a resolved, acyclic, fully connected registry of three components
\* that the resolver had to reorder (the waveguide registered second now
\* precedes the one registered first).
C1_Witness ==
    /\ call.op = "update" /\ dependencies_resolved
    /\ ~CyclicGraph /\ FullyConnected /\ Cardinality(Registered) = 3
    /\ \E i, j \in 1..Len(components) :
        i < j /\ components[i].name = "Waveguide 1" /\ components[j].name = "Waveguide 0"

\* C2: a registry with a cycle makes _resolve_dependencies fail with the
\* dependency-cycle error without reporting the order resolved, and it fails
\* only when there is a cycle.
C2_CycleErrorExactlyOnCycles ==
    [][ResolverRan
        => /\ CyclicGraph => /\ ret'.status = "RuntimeError: circular references"
                             /\ ~dependencies_resolved'
           /\ ~dependencies_resolved' => CyclicGraph]_vars

\* C3: after every successful add_component and every successful connect
\* (with or without a waveguide) the order-resolved flag is false.
C3_TopologyChangeInvalidates ==
    (call.op \in {"add_component", "connect"} /\ ret.status = "ok")
        => ~dependencies_resolved

\* The update() of every component ran after the update() of each component
\* feeding it.
UpdatedAfterFeeders ==
    \A i \in 1..Len(updateLog) : \A d \in FeedersOf(updateLog[i]) :
        \E j \in 1..(i - 1) : updateLog[j] = d

\* Every registered non-source component's stored output is its transfer
\* function of the outputs its feeders store now.
OutputsCurrent ==
    \A c \in Registered :
        PoolKind(c) \notin {"Laser", "VoltageSource"}
            => Component_update(connections_in, output, c).output[c] = output[c]

\* C4: on an acyclic, fully connected circuit every completed update() runs
\* each component after its feeders and ends with every non-source output
\* equal to its transfer function of the upstream outputs (no one-tick lag).
C4_TickInDependencyOrder ==
    (call.op = "update" /\ ret.status = "ok" /\ ~CyclicGraph /\ FullyConnected)
        => UpdatedAfterFeeders /\ OutputsCurrent

IsPrefix(a, b) == Len(a) <= Len(b) /\ SubSeq(b, 1, Len(a)) = a

\* C5: after T update() calls that returned normally, and no reset(), every
\* registered observer has recorded exactly T elements.
C5_EveryObserverHasAllTicks ==
    \A i \in 1..Len(observers) :
        ~obsTrack[i].reset => Len(observers[i].data) = ticks

\* C5 amended: after T update() calls made since the observer was created
\* (and since its last reset()), all of which returned normally, the
\* observer's sequence has length exactly T and its k-th element is the
\* value its tap showed at the end of the k-th of those calls.
C5_ObserverHasTicksSinceCreation ==
    \A i \in 1..Len(observers) :
        ~obsTrack[i].failed
            => /\ Len(observers[i].data) = obsTrack[i].ticks
               /\ \A k \in 1..Len(observers[i].data) :
                    observers[i].data[k] = obsTrack[i].samples[k]

\* C5 witness: an observer created after the first tick that has recorded
\* one sample in each of the two ticks made since.
C5_Witness ==
    \E i \in 1..Len(observers) :
        /\ ~obsTrack[i].failed /\ obsTrack[i].ticks = 2 /\ ticks > 2
        /\ Len(observers[i].data) = 2

\* C6: an observer's sequence is append-only: a completed update() extends
\* it by exactly one element, and every recorded element keeps its value
\* through any call but a reset() of that observer.
C6_ObserverAppendOnly ==
    [][\A i \in 1..Len(observers) :
        /\ (call'.op = "reset" /\ call'.name = observers[i].name)
              \/ IsPrefix(observers[i].data, observers'[i].data)
        /\ (call'.op = "update" /\ ret'.status = "ok")
              => Len(observers'[i].data) = Len(observers[i].data) + 1
        /\ call'.op \notin {"update", "reset"}
              => observers'[i].data = observers[i].data]_vars

\* C6 witness: an observer re-targeted after its first sample, holding two
\* different samples after a second tick.
C6_Witness ==
    \E i \in 1..Len(observers) :
        /\ Len(observers[i].data) = 2
        /\ observers[i].data[1] # observers[i].data[2]
        /\ observers[i].target = "W2"

\* C7: observer_data returns one entry per registered observer, in creation
\* order, each the observer's full recorded sequence.
C7_ObserverDataListsSequences ==
    call.op = "observer_data"
        => /\ ret.status = "ok"
           /\ ret.value = [i \in 1..Len(observers) |-> observers[i].data]

\* value lies in [min, max], -1 on a side meaning that side is unbounded
WithinRange(r, value) ==
    (r.min = -1 \/ value >= r.min) /\ (r.max = -1 \/ value <= r.max)

\* Some port count of the construction lies outside the variant's declared
\* input or output range.
CountOutsideDeclared(kind, size) ==
    \E port_type \in PortTypes :
        \/ ~WithinRange(ComponentTypeAttributes(kind).ports_in_ranges[port_type],
                        PortsInCount(kind, size)[port_type])
        \/ ~WithinRange(ComponentTypeAttributes(kind).ports_out_ranges[port_type],
                        PortsOutCount(kind, size)[port_type])

\* C8: a construction succeeds only with every input and output count inside
\* the declared range; a count outside raises the range error, and counts
\* inside (the boundaries included) succeed when a loss dict is given.
C8_ConstructionChecksRanges ==
    (call.op = "construct" /\ ret.status # "pending")
        => /\ ret.status = "ok" => ~CountOutsideDeclared(call.kind, call.size)
           /\ CountOutsideDeclared(call.kind, call.size) => ret.status = "ValueError"
           /\ (~CountOutsideDeclared(call.kind, call.size) /\ ~call.losses.none)
                 => ret.status = "ok"

\* C9: in_range(value) is true exactly when (min = -1 or value >= min) and
\* (max = -1 or value <= max).
C9_InRangeIsConjunction ==
    (call.op = "in_range" /\ ret.status # "pending")
        => ret.value = WithinRange(IntRange(call.min, call.max), call.value)

\* The component a connect argument denotes: itself, or the one registered
\* under that name.
Denoted(arg) == IF arg \in Pool THEN arg ELSE Lookup(components, arg)

\* C10: connect(source, target, OPTICAL, s, t, waveguide=w) leaves w's input
\* 0 fed by source output port s, source's output slot s pointing at w,
\* target's input slot t fed by w's output 0, every other slot of source and
\* target as it was, and w registered.
C10_SpliceAtNamedPorts ==
    [][(/\ call'.op = "connect" /\ ret'.status = "ok"
        /\ call'.waveguide # NoWaveguide /\ call'.port_type = "OPTICAL")
        => LET source == Denoted(call'.source)
               target == Denoted(call'.target)
               w == call'.waveguide
               s == call'.source_port_id + 1
               t == call'.target_port_id + 1
           IN  /\ connections_in'[w]["OPTICAL"][1] =
                      ConnectionEndpoint(source, call'.source_port_id)
               /\ connections_out'[source]["OPTICAL"][s] = ConnectionEndpoint(w, 0)
               /\ connections_in'[target]["OPTICAL"][t] = ConnectionEndpoint(w, 0)
               /\ \E i \in 1..Len(components') : components'[i].component = w
               /\ w \notin {source, target}
                    => \A c \in {source, target}, port_type \in PortTypes :
                        /\ \A i \in 1..Len(connections_out[c][port_type]) :
                             connections_out'[c][port_type][i] # connections_out[c][port_type][i]
                                => c = source /\ port_type = "OPTICAL" /\ i = s
                        /\ \A i \in 1..Len(connections_in[c][port_type]) :
                             connections_in'[c][port_type][i] # connections_in[c][port_type][i]
                                => c = target /\ port_type = "OPTICAL" /\ i = t]_vars

-----------------------------------------------------------------------------
(* Direct connections with any port index *)

\* Number of connect calls explored with arbitrary port indices.
MaxConnectCalls == 2
\* Largest port index tried; the smallest is its negative.
MaxPortId == 2

\* Port indices tried: negative ones, the ports that exist, some past them.
ConnectPortIds == (0 - MaxPortId)..MaxPortId

NextConnect ==
    /\ calls < MaxConnectCalls
    /\ Connect({"L", "S"}, {"W2"}, {"OPTICAL"}, ConnectPortIds, ConnectPortIds,
               {NoWaveguide})

SpecConnect == Init /\ [][NextConnect]_vars

\* The port indices of the connect call just made name an output port of the
\* source and an input port of the target: both lie in [0, number of ports).
IndicesInBounds ==
    LET source == Denoted(call'.source)
        target == Denoted(call'.target)
    IN  /\ 0 <= call'.source_port_id
        /\ call'.source_port_id < Len(connections_out[source][call'.port_type])
        /\ 0 <= call'.target_port_id
        /\ call'.target_port_id < Len(connections_in[target][call'.port_type])

DirectConnect == call'.op = "connect" /\ call'.waveguide = NoWaveguide

C12_OutOfRangeIndexRejected ==
    [][(DirectConnect /\ ~IndicesInBounds)
        => /\ ret'.status \in {"RuntimeError: output port exceeds",
                               "RuntimeError: input port exceeds"}
           /\ connections_in' = connections_in
           /\ connections_out' = connections_out]_vars

-----------------------------------------------------------------------------
(* Names *)

AutoName(description, n) == description \o " " \o ToString(n)

\* C14: add_component without a name registers the component under
\* "<description> <n>", n the lowest non-negative integer whose name is not
\* registered yet (names of that form given explicitly count), and returns
\* that name with the component.
C14_AutoNameIsLowestFree ==
    [][(call'.op = "add_component" /\ call'.name = NoName)
        => \E n \in 0..Len(components) :
            LET description == Description(call'.source)
            IN  /\ AutoName(description, n) \notin Names(components)
                /\ \A k \in 0..(n - 1) : AutoName(description, k) \in Names(components)
                /\ ret'.status = "ok"
                /\ ret'.value = <<AutoName(description, n), call'.source>>
                /\ components' = Append(components, [name |-> AutoName(description, n),
                                                     component |-> call'.source])]_vars

\* C14 witness: a waveguide added without a name became "Waveguide 1"
\* because "Waveguide 0" had been given explicitly to the laser.
C14_Witness ==
    /\ call.op = "add_component" /\ call.name = NoName /\ ret.status = "ok"
    /\ ret.value[1] = "Waveguide 1"
    /\ \E i \in 1..Len(components) :
        components[i].name = "Waveguide 0" /\ components[i].component = "L"

\* C15: add_component and create_observer with a name already present in
\* their namespace fail with the naming-conflict error and leave both
\* registries and the order-resolved flag unchanged; every registered name
\* keeps the component or observer it was first bound to, and no name is
\* registered twice.
C15_DuplicateNameRefused ==
    [][/\ (call'.op = "add_component" /\ call'.name # NoName
                                       /\ call'.name \in Names(components))
            => /\ ret'.status = "RuntimeError: already exists"
               /\ UNCHANGED <<components, observers, dependencies_resolved>>
       /\ (call'.op = "create_observer" /\ call'.name # NoName
                                         /\ call'.name \in Names(observers))
            => /\ ret'.status = "RuntimeError: already exists"
               /\ UNCHANGED <<components, observers, dependencies_resolved>>
       /\ \A i \in 1..Len(components) :
            \E j \in 1..Len(components') : components'[j] = components[i]
       /\ \A i \in 1..Len(observers) :
            i <= Len(observers') /\ observers'[i].name = observers[i].name
       /\ \A i, j \in 1..Len(components') :
            components'[i].name = components'[j].name => i = j
       /\ \A i, j \in 1..Len(observers') :
            observers'[i].name = observers'[j].name => i = j]_vars

\* C15 witness: an add_component refused for its name after an update() had
\* resolved the order, the flag still set.
C15_Witness ==
    /\ call.op = "add_component" /\ ret.status = "RuntimeError: already exists"
    /\ dependencies_resolved
    /\ Len(components) = 1

\* The number of entries of the sequence log equal to c
RECURSIVE Occurrences(_, _)
Occurrences(log, c) ==
    IF log = <<>> THEN 0
    ELSE (IF Head(log) = c THEN 1 ELSE 0) + Occurrences(Tail(log), c)

\* C16: in every update() that completes, the update() of each registered
\* component is invoked exactly once.
C16_EachComponentUpdatedOnce ==
    (call.op = "update" /\ ret.status = "ok")
        => \A c \in Registered : Occurrences(updateLog, c) = 1

-----------------------------------------------------------------------------
(* Circuits of the other variants *)

\* Number of calls explored on a bench circuit.
MaxBenchCalls == 3

VoltageSources == {c \in Parts : PoolKind(c) = "VoltageSource"}
Voltages == {0, 1}

\* VoltageSource._update_output
VoltageSource_update_output(out, c, v) == [out EXCEPT ![c]["ANALOG"][1] = Float(v)]

\* A connection made by source.connect_to(target, port_type, s, t)
Wire(source, target, port_type, source_port_id, target_port_id) ==
    [source |-> source, target |-> target, port_type |-> port_type,
     source_port_id |-> source_port_id, target_port_id |-> target_port_id]
Optical(source, source_port_id, target, target_port_id) ==
    Wire(source, target, "OPTICAL", source_port_id, target_port_id)

\* The tables after the connect_to calls of wires, made in that order
RECURSIVE ConnectAll(_, _)
ConnectAll(tabs, wires) ==
    IF wires = <<>> THEN tabs
    ELSE LET w == Head(wires)
         IN  ConnectAll(connect_to(tabs, w.source, w.target, w.port_type, w.source_port_id,
                                   w.target_port_id, NoWaveguide),
                        Tail(wires))

\* The circuits tried: the components registered, in that order, and the
\* connections made. Every input of every registered component is connected.
Circuits ==
    { [order |-> <<"L", "D">>,
       wires |-> <<Optical("L", 0, "D", 0)>>],
      [order |-> <<"L", "D", "P">>,
       wires |-> <<Optical("L", 0, "D", 0), Optical("D", 0, "P", 0)>>],
      [order |-> <<"L", "D", "W1">>,
       wires |-> <<Optical("L", 0, "D", 0), Optical("D", 0, "W1", 0)>>],
      [order |-> <<"L", "D", "M3">>,
       wires |-> <<Optical("L", 0, "D", 0), Optical("D", 0, "M3", 0),
                   Optical("D", 1, "M3", 1), Optical("L", 0, "M3", 2)>>],
      [order |-> <<"L", "W1", "M1">>,
       wires |-> <<Optical("L", 0, "W1", 0), Optical("W1", 0, "M1", 0)>>],
      [order |-> <<"L", "W1", "M3">>,
       wires |-> <<Optical("L", 0, "W1", 0), Optical("L", 0, "M3", 0),
                   Optical("W1", 0, "M3", 1), Optical("L", 0, "M3", 2)>>],
      [order |-> <<"L", "W1", "M4">>,
       wires |-> <<Optical("L", 0, "W1", 0), Optical("W1", 0, "M4", 0),
                   Optical("W1", 0, "M4", 1), Optical("W1", 0, "M4", 2),
                   Optical("L", 0, "M4", 3)>>],
      [order |-> <<"L", "V", "E", "P">>,
       wires |-> <<Optical("L", 0, "E", 0), Wire("V", "E", "ANALOG", 0, 0),
                   Optical("E", 0, "P", 0)>>],
      [order |-> <<"L", "W1", "V", "E0">>,
       wires |-> <<Optical("L", 0, "W1", 0), Optical("W1", 0, "E0", 0),
                   Wire("V", "E0", "ANALOG", 0, 0)>>] }

InitBench ==
    /\ \E circuit \in Circuits :
        LET tabs == ConnectAll(
                        Tables([c \in Parts |-> InitConnections(Built(c).ports_in)],
                               [c \in Parts |-> InitConnections(Built(c).ports_out)], "ok"),
                        circuit.wires)
        IN  /\ components = RegistryOf(circuit.order)
            /\ connections_in = tabs.in
            /\ connections_out = tabs.out
    /\ observers = <<>>
    /\ obsTrack = <<>>
    /\ dependencies_resolved = FALSE
    /\ power = [c \in Lasers |-> InitialPower]
    /\ output = [c \in Parts |->
                    IF c \in Lasers
                    THEN Laser_update_output(
                             [d \in Parts |-> InitOutput(Built(d).ports_out)], c,
                             InitialPower)[c]
                    ELSE InitOutput(Built(c).ports_out)]
    /\ InitCalls

\* VoltageSource.voltage = v (the setter recomputes the output at once)
SetVoltage ==
    \E c \in VoltageSources, v \in Voltages :
        /\ call' = [NoCall EXCEPT !.op = "set_voltage", !.source = c]
        /\ calls' = calls + 1
        /\ ret' = Result("ok", <<>>)
        /\ output' = VoltageSource_update_output(output, c, v)
        /\ UNCHANGED <<components, observers, dependencies_resolved, connections_in,
                       connections_out, power, updateLog, ticks, obsTrack>>

NextBench ==
    \/ /\ calls < MaxBenchCalls
       /\ Update
    \/ /\ calls < MaxBenchCalls
       /\ SetPower
    \/ /\ calls < MaxBenchCalls
       /\ SetVoltage
    \/ /\ calls < MaxBenchCalls
       /\ CreateObserver({"L"}, {"OPTICAL"}, {0}, {NoName})

SpecBench == InitBench /\ [][NextBench]_vars

\* The update() just made ran the components and one of them raised: the
\* resolver had succeeded (the observers of these circuits tap a port that
\* exists, so record() does not raise).
ComponentUpdateFailed ==
    call'.op = "update" /\ ret'.status # "ok" /\ dependencies_resolved'

\* C13: if a component's update() fails during update(), the tick is
\* aborted as a whole: no observer records a sample and the stored outputs of
\* all components are those from before the call.
C13_FailedTickLeavesNoTrace ==
    [][ComponentUpdateFailed
        => /\ \A i \in 1..Len(observers) : observers'[i].data = observers[i].data
           /\ output' = output]_vars

\* The value stored at the output port that feeds input slot i (1-based) of c
FeederOutput(c, i) ==
    LET connection == connections_in[c]["OPTICAL"][i]
    IN  output[connection.component]["OPTICAL"][PyIdx(
            output[connection.component]["OPTICAL"], connection.port_id)]

\* The multiplexers whose update() ran in the last update() call and whose
\* inputs are all connected to ports holding a spectral-power mapping.
MuxesRun ==
    {m \in Registered :
        /\ PoolKind(m) = "Mux"
        /\ \E k \in 1..Len(updateLog) : updateLog[k] = m
        /\ \A i \in 1..Built(m).ports_in["OPTICAL"] :
            /\ ~IsNone(connections_in[m]["OPTICAL"][i])
            /\ FeederOutput(m, i).t = "OpticalPower"}

\* The power at wavelength w summed over the first n inputs of m
RECURSIVE InputPowerSum(_, _, _)
InputPowerSum(m, n, w) ==
    IF n = 0 THEN 0
    ELSE InputPowerSum(m, n - 1, w) + OpticalPower_getitem(FeederOutput(m, n).m, w)

SpectralLines == {Wavelength, Wavelength + 1}

\* C17: update() of a Mux with N connected optical inputs sets its output, at
\* every wavelength, to the sum over all N inputs of the input power times
\* the insertion factor, reading each input once and no port index >= N.
C17_MuxSumsAllInputs ==
    (call.op = "update" /\ updateLog # <<>>)
        => \A m \in MuxesRun :
            /\ ~(ret.status # "ok" /\ updateLog[Len(updateLog)] = m)
            /\ output[m]["OPTICAL"][1].t = "OpticalPower"
            /\ \A w \in SpectralLines :
                OpticalPower_getitem(output[m]["OPTICAL"][1].m, w) =
                    InputPowerSum(m, Built(m).ports_in["OPTICAL"], w)
                        * LossFactor(m, "insertion")

\* C18: after a completed update() every optical output slot of every
\* component holds a spectral-power mapping, and output i of a Demux is the
\* spectral line {w_i: input[w_i] * insertion factor}.
C18_OpticalOutputsAreSpectra ==
    (call.op = "update" /\ ret.status = "ok")
        => \A c \in Registered :
            /\ \A i \in 1..Len(output[c]["OPTICAL"]) :
                output[c]["OPTICAL"][i].t = "OpticalPower"
            /\ PoolKind(c) = "Demux"
                => \A i \in 1..Len(Wavelengths(c)) :
                    output[c]["OPTICAL"][i] =
                        OpticalPower([w \in {Wavelengths(c)[i]} |->
                            OpticalPower_getitem(FeederOutput(c, 1).m, w)
                                * LossFactor(c, "insertion")])

-----------------------------------------------------------------------------
(* Loss defaults *)

\* The loss names the configuration of a construct call lacks
MissingLosses ==
    ComponentTypeAttributes(call.kind).optical_losses_types
        \ (IF call.losses.none THEN {} ELSE DOMAIN call.losses.db)

\* C19: constructing a variant with port counts it accepts and a loss
\* configuration that lacks a required loss name (an empty dict and None
\* included) succeeds with that loss at 0 dB and factor 1, and warns about
\* exactly the missing names.
C19_MissingLossDefaultsToZero ==
    (/\ call.op = "construct" /\ ret.status # "pending"
     /\ MissingLosses # {}
     /\ ~PortsRangeError(ComponentTypeAttributes(call.kind),
                         PortsInCount(call.kind, call.size),
                         PortsOutCount(call.kind, call.size)))
        => /\ ret.status = "ok"
           /\ ret.value.warned = MissingLosses
           /\ ~ret.value.losses_db.none
           /\ \A l \in MissingLosses :
               /\ ret.value.losses_db.db[l] = 0
               /\ ret.value.losses_factor.db[l] = 1

-----------------------------------------------------------------------------
(* Reading an input and mutating what was read *)

\* Number of calls explored when inputs are read.
MaxInputCalls == 3

\* hasattr(ret, "copy"): an OpticalPower has copy(), a float has not.
HasCopy(value) == value.t = "OpticalPower"

\* What get_input hands back: the data, and whether it is the very object
\* stored in the upstream output slot (shared) or a copy of it.
Returned(data, copy, shared) == [data |-> data, copy |-> copy, shared |-> shared]

\* Mutant of get_input_copy: the stored object is returned whatever copy is.
get_input_nocopy(cin, out, c, port_type, port_id, copy) ==
    LET r == get_input(cin, out, c, port_type, port_id)
    IN  Result(r.status, Returned(r.value, copy, r.status = "ok" /\ HasCopy(r.value)))

\* Component.get_input(port_type, port_id, copy): ret.copy() if copy is set
\* and ret has copy(), else ret itself.
get_input_copy(cin, out, c, port_type, port_id, copy) ==
    LET r == get_input(cin, out, c, port_type, port_id)
    IN  Result(r.status,
               Returned(r.value, copy,
                        r.status = "ok" /\ HasCopy(r.value) /\ ~copy))

\* value[Wavelength] = 0 on an OpticalPower dict
OpticalPower_setitem(m, key, x) ==
    [w \in (DOMAIN m) \cup {key} |-> IF w = key THEN x ELSE m[w]]

Darkened(value) == OpticalPower(OpticalPower_setitem(value.m, Wavelength, 0))

\* c.get_input(port_type, port_id, copy) called from outside
GetInput(Cs, PTs, Ps) ==
    \E c \in Cs, port_type \in PTs, port_id \in Ps, copy \in BOOLEAN :
        /\ call' = CallRec("get_input", c, "None", port_type, port_id, 0, NoWaveguide, NoName)
        /\ calls' = calls + 1
        /\ ret' = get_input_copy(connections_in, output, c, port_type, port_id, copy)
        /\ UNCHANGED <<components, observers, dependencies_resolved, connections_in,
                       connections_out, output, power, updateLog, ticks, obsTrack>>

\* The component feeding the slot the last get_input read
ReadFrom ==
    LET slots == connections_in[call.source][call.port_type]
    IN  slots[PyIdx(slots, call.source_port_id)].component

\* The caller sets returned[Wavelength] = 0 on the OpticalPower that the last
\* get_input returned. If that is the stored object, the upstream output
\* changes with it; no update() runs here, so every optical slot of a
\* component still holds the one object __init__ filled the list with.
MutateReturned ==
    /\ call.op = "get_input" /\ ret.status = "ok" /\ HasCopy(ret.value.data)
    /\ call' = [call EXCEPT !.op = "mutate_returned"]
    /\ calls' = calls + 1
    /\ ret' = [ret EXCEPT !.value.data = Darkened(@)]
    /\ output' = IF ret.value.shared
                 THEN [output EXCEPT ![ReadFrom]["OPTICAL"] =
                          [i \in DOMAIN @ |-> Darkened(@[i])]]
                 ELSE output
    /\ UNCHANGED <<components, observers, dependencies_resolved, connections_in,
                   connections_out, power, updateLog, ticks, obsTrack>>

NextInput ==
    \/ /\ calls < MaxInputCalls
       /\ Connect({"L", "S"}, Waveguides, {"OPTICAL"}, PortIds, PortIds, {NoWaveguide})
    \/ /\ calls < MaxInputCalls
       /\ SetPower
    \/ /\ calls < MaxInputCalls
       /\ GetInput(Waveguides \cup {"S"}, {"OPTICAL"}, ConnectPortIds)
    \/ /\ calls < MaxInputCalls
       /\ MutateReturned

SpecInput == Init /\ [][NextInput]_vars

\* The input slot a get_input call addresses, when the index names one
SlotRead(c, port_type, port_id) ==
    connections_in[c][port_type][PyIdx(connections_in[c][port_type], port_id)]

\* C20: on an input slot that exists, get_input fails with the
\* unconnected-port error exactly when the slot holds no endpoint and
\* otherwise returns the value stored at the connected upstream output port;
\* after get_input with copy=True, mutating the returned spectral power
\* leaves every stored output unchanged.
C20_GetInputReadsUpstreamCopy ==
    [][/\ (call'.op = "get_input"
           /\ ValidIndex(connections_in[call'.source][call'.port_type],
                         call'.source_port_id))
          => LET connection == SlotRead(call'.source, call'.port_type,
                                        call'.source_port_id)
                 outs == output[connection.component][call'.port_type]
             IN  /\ ret'.status = "RuntimeError: not connected" <=> IsNone(connection)
                 /\ ~IsNone(connection)
                     => /\ ret'.status = "ok"
                        /\ ret'.value.data = outs[PyIdx(outs, connection.port_id)]
       /\ (call'.op = "mutate_returned" /\ ret.value.copy) => output' = output]_vars

\* C20 witness: the spectrum of the laser was read through a connected slot
\* with copy=True, the caller zeroed a line of it, and the laser's stored
\* output still carries the power.
C20_Witness ==
    /\ call.op = "mutate_returned" /\ ret.value.copy
    /\ ReadFrom = "L"
    /\ OpticalPower_getitem(ret.value.data.m, Wavelength) = 0
    /\ OpticalPower_getitem(output["L"]["OPTICAL"][1].m, Wavelength) = power["L"]

-----------------------------------------------------------------------------
(* Adding spectral powers *)

\* Number of wavelengths the operands range over, and their largest power.
MaxLines == 2
MaxLevel == 2

Lines == Wavelength..(Wavelength + MaxLines - 1)
Spectra == UNION {[present -> 0..MaxLevel] : present \in SUBSET Lines}

\* `for wavelength in rhs.keys(): ret[wavelength] += rhs[wavelength]` over the
\* keys still to visit, sum standing for ret: ret[wavelength] is read through __getitem__ (0 when
\* absent) and stored back.
RECURSIVE OpticalPower_add_loop(_, _, _)
OpticalPower_add_loop(sum, rhs, keys) ==
    IF keys = {} THEN sum
    ELSE LET wavelength == CHOOSE w \in keys : \A v \in keys : w <= v
         IN  OpticalPower_add_loop(
                 OpticalPower_setitem(sum, wavelength,
                                      OpticalPower_getitem(sum, wavelength) + rhs[wavelength]),
                 rhs, keys \ {wavelength})

\* The three dicts once an addition is done
Operands(self, rhs, sum) == [self |-> self, rhs |-> rhs, ret |-> sum]

\* Mutant of OpticalPower_add_run: the sum is accumulated in self itself.
OpticalPower_add_inplace(self, rhs) ==
    LET sum == OpticalPower_add_loop(self, rhs, DOMAIN rhs)
    IN  Operands(sum, rhs, sum)

\* OpticalPower.__add__ as it runs: ret = self.copy() is a new dict, the loop
\* writes into ret only.
OpticalPower_add_run(self, rhs) ==
    Operands(self, rhs, OpticalPower_add_loop(self, rhs, DOMAIN rhs))

InitAdd ==
    /\ call \in {[op |-> "add", self |-> a, rhs |-> b] : a \in Spectra, b \in Spectra}
    /\ ret = Pending
    /\ components = <<>> /\ observers = <<>> /\ obsTrack = <<>>
    /\ dependencies_resolved = FALSE
    /\ connections_in = [c \in Pool |-> InitConnections(Built(c).ports_in)]
    /\ connections_out = [c \in Pool |-> InitConnections(Built(c).ports_out)]
    /\ InitComponents(InitialPower)
    /\ updateLog = <<>> /\ ticks = 0 /\ calls = 0

\* a + b
AddCall ==
    /\ call.op = "add" /\ ret.status = "pending"
    /\ ret' = Result("ok", OpticalPower_add_run(call.self, call.rhs))
    /\ UNCHANGED <<components, observers, dependencies_resolved, connections_in,
                   connections_out, output, power, call, updateLog, ticks, obsTrack, calls>>

NextAdd == AddCall

SpecAdd == InitAdd /\ [][NextAdd]_vars

\* C21: (a + b)[w] = a[w] + b[w] at every wavelength w, an absent wavelength
\* (one outside the operands' range included) reading as 0, and the addition
\* leaves a and b as they were.
C21_AddIsPointwiseAndPure ==
    (call.op = "add" /\ ret.status = "ok")
        => /\ \A w \in Lines \cup {Wavelength + MaxLines} :
               OpticalPower_getitem(ret.value.ret, w) =
                   OpticalPower_getitem(call.self, w) + OpticalPower_getitem(call.rhs, w)
           /\ ret.value.self = call.self
           /\ ret.value.rhs = call.rhs

\* C21 witness: a sum was computed of operands that each carry a wavelength
\* the other lacks.
C21_Witness ==
    /\ call.op = "add" /\ ret.status = "ok"
    /\ (DOMAIN call.self) \ (DOMAIN call.rhs) # {}
    /\ (DOMAIN call.rhs) \ (DOMAIN call.self) # {}
    /\ \E w \in DOMAIN call.rhs : call.rhs[w] > 0 /\ ret.value.ret[w] = call.rhs[w]

-----------------------------------------------------------------------------
(* Two ticks in a row *)

\* Number of calls explored when two update() calls follow each other.
MaxTickCalls == 5

NextTicks ==
    \/ /\ calls < MaxTickCalls
       /\ Connect(Waveguides, Waveguides, {"OPTICAL"}, {0}, {0}, {NoWaveguide})
    \/ /\ calls < MaxTickCalls
       /\ SetPower
    \/ /\ calls < MaxTickCalls
       /\ Update

SpecTicks == InitCircuit /\ [][NextTicks]_vars

\* An update() that completed is followed at once by another that completes
SecondTick ==
    /\ call.op = "update" /\ ret.status = "ok"
    /\ call'.op = "update" /\ ret'.status = "ok"

\* C22: on an acyclic, fully connected circuit, a completed update() that
\* directly follows a completed update() leaves every stored output and the
\* evaluation order as the first one left them.
C22_SecondTickChangesNothing ==
    [][(SecondTick /\ ~CyclicGraph /\ FullyConnected)
        => /\ output' = output
           /\ components' = components]_vars

-----------------------------------------------------------------------------
(* Unconnected input slots *)

\* A registered component has an input slot that holds no endpoint
OpenSlot == \E c \in Registered : \E e \in InputConnections(connections_in, c) : IsNone(e)

\* C23: on an acyclic graph in which a registered component has an
\* unconnected input slot, _resolve_dependencies completes with a valid order
\* of the same entries, and update() fails at most with the unconnected-port
\* error of the component that reads the slot.
C23_OpenSlotIsNoDependency ==
    [][(ResolverRan /\ ~CyclicGraph /\ OpenSlot)
        => /\ dependencies_resolved'
           /\ SameEntries(components, components')
           /\ DependencyOrdered(components')
           /\ ret'.status \in {"ok", "RuntimeError: not connected"}]_vars

-----------------------------------------------------------------------------
(* The resolver pass by pass *)

\* Where the while loop of _resolve_dependencies stands
Position(current_index, iterated) ==
    [current_index |-> current_index, iterated |-> iterated]

\* _resolve_dependencies is entered: current_index = 0, iterated_componentes = 0
EnterResolve ==
    /\ call.op = "none"
    /\ call' = [NoCall EXCEPT !.op = "resolve_dependencies"]
    /\ calls' = calls + 1
    /\ ret' = Result("running", Position(0, 0))
    /\ UNCHANGED <<components, observers, dependencies_resolved, connections_in,
                   connections_out, output, power, updateLog, ticks, obsTrack>>

\* One pass of the while loop: the loop ends, raises, rotates the registry or
\* accepts a component; the flag is set when the loop has ended.
ResolvePass ==
    /\ call.op = "resolve_dependencies" /\ ret.status = "running"
    /\ LET st == ResolveStep(connections_in,
                             [components |-> components,
                              current_index |-> ret.value.current_index,
                              iterated |-> ret.value.iterated,
                              status |-> "running"])
       IN  /\ components' = st.components
           /\ ret' = Result(st.status, Position(st.current_index, st.iterated))
           /\ dependencies_resolved' = (st.status = "ok")
    /\ UNCHANGED <<observers, connections_in, connections_out, output, power, call,
                   updateLog, ticks, obsTrack, calls>>

NextResolve == EnterResolve \/ ResolvePass

SpecResolve == InitGraph /\ [][NextResolve]_vars

\* A loop that can make a pass makes it.
SpecResolveFair == SpecResolve /\ WF_vars(ResolvePass)

\* The resolver has accepted every component and set the flag, or raised the
\* dependency-cycle error
ResolverDone ==
    \/ ret.status = "ok" /\ dependencies_resolved
                         /\ ret.value.current_index = Len(components)
    \/ ret.status = "RuntimeError: circular references"

\* C24: for every registry and every connection graph, _resolve_dependencies
\* once entered eventually either accepts all components and sets the
\* order-resolved flag or raises the dependency-cycle error.
C24_ResolverEndsResolvedOrCyclic ==
    (call.op = "resolve_dependencies") ~> ResolverDone

-----------------------------------------------------------------------------
(* The two connection tables *)

\* Slot port_id (counted from 0) of the table's list for c and port_type
\* exists and holds the endpoint e
SlotHolds(table, c, port_type, port_id, e) ==
    /\ 0 <= port_id /\ port_id < Len(table[c][port_type])
    /\ table[c][port_type][port_id + 1] = e

\* c's output slot (port_type, p) holds (t, q) exactly when t's input slot
\* (port_type, q) holds (c, p)
TablesAgree(cin, cout) ==
    \A c \in Pool, t \in Pool, port_type \in PortTypes, p \in ConnectPortIds,
       q \in ConnectPortIds :
        SlotHolds(cout, c, port_type, p, ConnectionEndpoint(t, q))
            <=> SlotHolds(cin, t, port_type, q, ConnectionEndpoint(c, p))

\* C25: a successful connect_to made on tables that agree, overwriting a
\* populated slot or not, leaves tables that agree.
C25_ConnectKeepsTablesInAgreement ==
    [][(DirectConnect /\ ret'.status = "ok" /\ TablesAgree(connections_in, connections_out))
        => TablesAgree(connections_in', connections_out')]_vars

====
